---------------------------- MODULE Spec2Model ----------------------------
(***************************************************************************)
(* A model of src/backend/kalman_filter_track.cpp: the helical motion      *)
(* model (propagate, jacobian_F) and main's four phases -- dense ground    *)
(* truth, per-layer smeared hits, the Kalman predict/update loop and the   *)
(* output record.                                                          *)
(*                                                                         *)
(* Arithmetic.  The program computes in IEEE-754 binary64.  The model      *)
(* keeps the structure of that arithmetic and shortens the significand: a  *)
(* number is <<m, e>>, standing for m * 2^e, with m = 0 or                 *)
(* 2^(MantBits-1) <= |m| < 2^MantBits, and every +, -, *, / is rounded to  *)
(* nearest, ties to even, exactly once, as the hardware does.  The         *)
(* exponent is unbounded (binary64's exponent range is never approached).  *)
(* std::sin and std::cos are evaluated by a Taylor polynomial in fixed     *)
(* point with FracBits fractional bits; std::tan is their quotient.        *)
(* Output goes through operator<<, which drops digits; Shown does so too.  *)
(*                                                                         *)
(* Noise.  TRandom3 is a stream of samples fixed by its seed; a seed of 0  *)
(* asks ROOT for a seed of its own choosing, so any seed can be the run's. *)
(***************************************************************************)
EXTENDS Integers, Sequences, FiniteSets, TLC

\* Significand width of the model's floating point (binary64 has 53).
MantBits == 12

\* The noise source returns standard-normal draws from {-MaxZ, 0, MaxZ}.
MaxZ == 4

\* A seed selects a stream of draws that repeats with this period.
NoisePeriod == 4

-----------------------------------------------------------------------------
(* Floating point *)

Abs(n) == IF n < 0 THEN -n ELSE n

Sgn(n) == IF n < 0 THEN -1 ELSE 1

RECURSIVE BitLen(_)
BitLen(a) ==
    IF a = 0 THEN 0
    ELSE IF a >= 2^8 THEN 8 + BitLen(a \div 2^8)
    ELSE 1 + BitLen(a \div 2)

Zero == <<0, 0>>

\* The value n * 2^e rounded to the given number of significant bits, ties
\* to even.
RoundTo(bits, n, e) ==
    IF n = 0 THEN Zero
    ELSE LET a == Abs(n)
             L == BitLen(a)
         IN  IF L <= bits
             THEN <<n * 2^(bits - L), e - (bits - L)>>
             ELSE LET k == L - bits
                      q == a \div 2^k
                      r == a % 2^k
                      half == 2^(k - 1)
                      q2 == IF r > half \/ (r = half /\ q % 2 = 1)
                            THEN q + 1 ELSE q
                  IN  IF q2 = 2^bits
                      THEN <<Sgn(n) * 2^(bits - 1), e + k + 1>>
                      ELSE <<Sgn(n) * q2, e + k>>

\* The value n * 2^e as a double: rounded to MantBits significant bits.
Norm(n, e) == RoundTo(MantBits, n, e)

FromInt(n) == Norm(n, 0)

One == FromInt(1)

FNeg(a) == <<-a[1], a[2]>>

\* a + b.  When the exponents differ by more than MantBits + 2 the smaller
\* operand is below a quarter of the larger one's last place.
FAddOrdered(a, b) ==
    LET d == a[2] - b[2]
    IN  IF d > MantBits + 2 THEN a ELSE Norm(a[1] * 2^d + b[1], b[2])

FAdd(a, b) ==
    IF a[1] = 0 THEN b
    ELSE IF b[1] = 0 THEN a
    ELSE IF a[2] < b[2] THEN FAddOrdered(b, a) ELSE FAddOrdered(a, b)

FSub(a, b) == FAdd(a, FNeg(b))

FMul(a, b) == Norm(a[1] * b[1], a[2] + b[2])

\* a / b for b # 0: the quotient to MantBits + 2 bits and a sticky bit.
FDiv(a, b) ==
    IF a[1] = 0 THEN Zero
    ELSE LET n == Abs(a[1]) * 2^(MantBits + 2)
             d == Abs(b[1])
             q == n \div d
             sticky == IF n % d = 0 THEN 0 ELSE 1
         IN  Norm(Sgn(a[1]) * Sgn(b[1]) * (2 * q + sticky),
                  a[2] - b[2] - (MantBits + 2) - 1)

FLt(a, b) == FSub(a, b)[1] < 0

FLe(a, b) == FSub(a, b)[1] <= 0

FAbs(a) == <<Abs(a[1]), a[2]>>

\* The decimal literal n/d, rounded as the compiler rounds it.
Dec(n, d) == FDiv(FromInt(n), FromInt(d))

-----------------------------------------------------------------------------
(* std::sin, std::cos, std::tan *)

FracBits == MantBits + 1

FixOne == 2^FracBits

\* pi in fixed point (843314857 = pi * 2^28, rounded).
PiFix == (843314857 + 2^(27 - FracBits)) \div 2^(28 - FracBits)

ToFix(a) ==
    LET s == a[2] + FracBits
    IN  IF s >= 0 THEN a[1] * 2^s
        ELSE IF -s > MantBits + 1 THEN 0
        ELSE (a[1] + 2^(-s - 1)) \div 2^(-s)

MulFix(a, b) == (a * b) \div FixOne

\* sin x for |x| <= pi/2, Horner form of x - x^3/3! + ... + x^9/9!
SinFix(x) ==
    LET t  == MulFix(x, x)
        h4 == FixOne - t \div 72
        h3 == FixOne - MulFix(t, h4) \div 42
        h2 == FixOne - MulFix(t, h3) \div 20
        h1 == FixOne - MulFix(t, h2) \div 6
    IN  MulFix(x, h1)

\* cos x for |x| <= pi/2, Horner form of 1 - x^2/2! + ... - x^10/10!
CosFix(x) ==
    LET t  == MulFix(x, x)
        h5 == FixOne - t \div 90
        h4 == FixOne - MulFix(t, h5) \div 56
        h3 == FixOne - MulFix(t, h4) \div 30
        h2 == FixOne - MulFix(t, h3) \div 12
    IN  FixOne - MulFix(t, h2) \div 2

\* The argument reduced to [-pi, pi).
Reduce(X) == ((X + PiFix) % (2 * PiFix)) - PiFix

Sin(a) ==
    LET x == Reduce(ToFix(a))
        v == IF 2 * x > PiFix THEN SinFix(PiFix - x)
             ELSE IF 2 * x < -PiFix THEN SinFix(-PiFix - x)
             ELSE SinFix(x)
    IN  Norm(v, -FracBits)

Cos(a) ==
    LET x == Reduce(ToFix(a))
        v == IF 2 * x > PiFix THEN -CosFix(PiFix - x)
             ELSE IF 2 * x < -PiFix THEN -CosFix(-PiFix - x)
             ELSE CosFix(x)
    IN  Norm(v, -FracBits)

Tan(a) == FDiv(Sin(a), Cos(a))

-----------------------------------------------------------------------------
(* Detector and physics parameters *)

VARIABLES
    cfg,                \* the configuration literals of lines 33-36
    seed,               \* the seed TRandom3 runs from
    rng_calls,          \* how many samples rng has returned
    draws,              \* the standard-normal draws behind those samples
    pc,                 \* the phase of main
    i,                  \* the loop index of the current phase
    current_true_state, last_x, true_x, true_y,
    x_step,             \* the loop variable of the dense stepping
    measured_y,
    x_est, P_est, last_kf_x, kf_x, kf_y,
    log,                \* the locals of every Kalman iteration so far
    out                 \* the record written to stdout, and the exit code

vars == <<cfg, seed, rng_calls, draws, pc, i, current_true_state, last_x,
          true_x, true_y, x_step, measured_y, x_est, P_est, last_kf_x, kf_x,
          kf_y, log, out>>

layer_x_positions == cfg.layer_x_positions

n_layers == Len(cfg.layer_x_positions)

measurement_error == cfg.measurement_error

process_noise_q == cfg.process_noise_q

pt == FromInt(1)

B == FromInt(1)

R == FDiv(FMul(pt, FromInt(100)), FMul(Dec(3, 10), B))

-----------------------------------------------------------------------------
(* The motion model *)

propagate(state_k, x_k, x_k1) ==
    LET y == state_k[1]
        phi == state_k[2]
        delta_x == FSub(x_k1, x_k)
    IN  << FAdd(y, FMul(delta_x, Tan(phi))),
           FSub(phi, FDiv(FDiv(delta_x, R), Cos(phi))) >>

jacobian_F(state_k, x_k, x_k1) ==
    LET phi == state_k[2]
        delta_x == FSub(x_k1, x_k)
        tan_phi == Tan(phi)
        cos_phi == Cos(phi)
    IN  << << One, FMul(delta_x, FAdd(One, FMul(tan_phi, tan_phi))) >>,
           << Zero,
              FSub(One, FMul(FDiv(delta_x, R),
                             FDiv(Sin(phi), FMul(cos_phi, cos_phi)))) >> >>

-----------------------------------------------------------------------------
(* Small matrices (ROOT::Math::SMatrix) *)

MatMul(A, M) ==
    << << FAdd(FMul(A[1][1], M[1][1]), FMul(A[1][2], M[2][1])),
          FAdd(FMul(A[1][1], M[1][2]), FMul(A[1][2], M[2][2])) >>,
       << FAdd(FMul(A[2][1], M[1][1]), FMul(A[2][2], M[2][1])),
          FAdd(FMul(A[2][1], M[1][2]), FMul(A[2][2], M[2][2])) >> >>

Transpose(A) == << <<A[1][1], A[2][1]>>, <<A[1][2], A[2][2]>> >>

MatAdd(A, M) ==
    << <<FAdd(A[1][1], M[1][1]), FAdd(A[1][2], M[1][2])>>,
       <<FAdd(A[2][1], M[2][1]), FAdd(A[2][2], M[2][2])>> >>

MatSub(A, M) ==
    << <<FSub(A[1][1], M[1][1]), FSub(A[1][2], M[1][2])>>,
       <<FSub(A[2][1], M[2][1]), FSub(A[2][2], M[2][2])>> >>

SMatrixIdentity == << <<One, Zero>>, <<Zero, One>> >>

ZeroMatrix == << <<Zero, Zero>>, <<Zero, Zero>> >>

\* S.Invert(S_inv) for a 1x1 matrix: the reciprocal goes to S_inv; a zero S
\* is reported as a failure and S_inv keeps the zeros it was built with.
Invert(S) ==
    IF S[1] = 0 THEN [ok |-> FALSE, inv |-> Zero]
    ELSE [ok |-> TRUE, inv |-> FDiv(One, S)]

-----------------------------------------------------------------------------
(* The noise source (TRandom3) *)

Seeds == 0 .. (3^NoisePeriod - 1)

\* The k-th standard-normal draw (k = 0, 1, ...) of the stream of seed s.
Stream(s, k) == (((s \div 3^(k % NoisePeriod)) % 3) - 1) * MaxZ

\* A generator that returns its first draw again on every call.
Gaus_stuck(calls, mean, sigma) ==
    FAdd(mean, FMul(sigma, FromInt(Stream(seed, 0))))

\* rng.Gaus(mean, sigma) as the (calls+1)-th sample of the run.
Gaus(calls, mean, sigma) ==
    FAdd(mean, FMul(sigma, FromInt(Stream(seed, calls))))

-----------------------------------------------------------------------------
(* Configurations: the literals of lines 33-36 and variations of them *)

Config(xs, sigma, q) ==
    [layer_x_positions |-> xs, measurement_error |-> sigma,
     process_noise_q |-> q]

Ints(xs) == [k \in 1 .. Len(xs) |-> FromInt(xs[k])]

\* The configuration the source is compiled with.
Scenario ==
    Config(Ints(<<10, 20, 30, 40, 50, 60, 70, 80, 90, 100>>),
           FromInt(2), Dec(1, 100))

\* Measurement error 0: the noiseless limit.
Noiseless == Config(Ints(<<10, 20, 30, 40>>), Zero, Dec(1, 100))

EmptyGeometry == Config(<<>>, FromInt(2), Dec(1, 100))

Decreasing == Config(Ints(<<20, 10>>), FromInt(2), Dec(1, 100))

\* A repeated layer position and measurement error 0.
Repeated == Config(Ints(<<10, 10, 20>>), Zero, Dec(1, 100))

NoProcessNoise == Config(Ints(<<10, 20, 30>>), Zero, Zero)

NegativeError == Config(Ints(<<10, 20>>), FromInt(-2), Dec(1, 100))

\* A first layer closer to the origin than one ground-truth step.
FineGeometry == Config(<<Dec(1, 4), One>>, FromInt(2), Dec(1, 100))

Configurations ==
    {Scenario, Noiseless, EmptyGeometry, Decreasing, Repeated,
     NoProcessNoise, NegativeError, FineGeometry}

-----------------------------------------------------------------------------
(* main *)

true_state_initial == << FromInt(5), FNeg(Dec(2, 10)) >>

\* The step of the dense ground-truth loop.
step_size == Dec(1, 2)

NoOutput ==
    [detector_layers |-> <<>>, true_track |-> <<>>, hits |-> <<>>,
     kf_track |-> <<>>, exit_code |-> -1]

Init ==
    /\ cfg \in Configurations
    /\ seed \in Seeds
    /\ rng_calls = 0
    /\ draws = <<>>
    /\ pc = "truth"
    /\ i = 0
    /\ current_true_state = true_state_initial
    /\ last_x = Zero
    /\ x_step = Zero
    /\ true_x = <<>>
    /\ true_y = <<>>
    /\ measured_y = <<>>
    /\ x_est = <<Zero, Zero>>
    /\ P_est = ZeroMatrix
    /\ last_kf_x = Zero
    /\ kf_x = <<>>
    /\ kf_y = <<>>
    /\ log = <<>>
    /\ out = NoOutput

\* The body of the inner loop (lines 84-88): one step of 0.5 from x_step.
TruthStep ==
    /\ pc = "truth"
    /\ i < n_layers
    /\ FLt(x_step, layer_x_positions[i + 1])
    /\ \E next_state \in {propagate(current_true_state, x_step,
                                     FAdd(x_step, step_size))} :
           /\ current_true_state' = next_state
           /\ true_y' = Append(true_y, next_state[1])
    /\ true_x' = Append(true_x, FAdd(x_step, step_size))
    /\ x_step' = FAdd(x_step, step_size)
    /\ UNCHANGED <<cfg, seed, rng_calls, draws, pc, i, last_x, measured_y,
                   x_est, P_est, last_kf_x, kf_x, kf_y, log, out>>

\* The inner loop has reached the layer (line 84 fails); line 89 and the
\* start of the next iteration of the loop of lines 82-90.
TruthLayer ==
    /\ pc = "truth"
    /\ i < n_layers
    /\ ~FLt(x_step, layer_x_positions[i + 1])
    /\ last_x' = layer_x_positions[i + 1]
    /\ x_step' = layer_x_positions[i + 1]
    /\ i' = i + 1
    /\ UNCHANGED <<cfg, seed, rng_calls, draws, pc, current_true_state,
                   true_x, true_y, measured_y, x_est, P_est, last_kf_x,
                   kf_x, kf_y, log, out>>

\* Lines 93-95, once the loop of lines 82-90 has ended.
StartMeasurements ==
    /\ pc = "truth"
    /\ i >= n_layers
    /\ pc' = "hits"
    /\ i' = 0
    /\ current_true_state' = true_state_initial
    /\ last_x' = Zero
    /\ UNCHANGED <<x_step, cfg, seed, rng_calls, draws, true_x, true_y,
                   measured_y, x_est, P_est, last_kf_x, kf_x, kf_y, log, out>>

\* One iteration of the loop of lines 96-102.
Measure ==
    /\ pc = "hits"
    /\ i < n_layers
    /\ \E next_state \in {propagate(current_true_state, last_x,
                                     layer_x_positions[i + 1])} :
           /\ current_true_state' = next_state
           /\ measured_y' =
                  Append(measured_y,
                         FAdd(next_state[1],
                              Gaus(rng_calls, Zero, measurement_error)))
    /\ last_x' = layer_x_positions[i + 1]
    /\ rng_calls' = rng_calls + 1
    /\ draws' = Append(draws, Stream(seed, rng_calls))
    /\ i' = i + 1
    /\ UNCHANGED <<x_step, cfg, seed, pc, true_x, true_y, x_est, P_est,
                   last_kf_x, kf_x, kf_y, log, out>>

\* The prior of lines 108-114.
InitialGuess(calls) ==
    << FAdd(true_state_initial[1], Gaus(calls, Zero, FromInt(5))),
       FAdd(true_state_initial[2], Gaus(calls + 1, Zero, Dec(1, 10))) >>

InitialCovariance == << <<FromInt(100), Zero>>, <<Zero, One>> >>

\* Lines 105-131, once the loop of lines 96-102 has ended.
InitFilter ==
    /\ pc = "hits"
    /\ i >= n_layers
    /\ x_est' = InitialGuess(rng_calls)
    /\ P_est' = InitialCovariance
    /\ rng_calls' = rng_calls + 2
    /\ draws' = draws \o <<Stream(seed, rng_calls),
                            Stream(seed, rng_calls + 1)>>
    /\ last_kf_x' = Zero
    /\ pc' = "kalman"
    /\ i' = 0
    /\ UNCHANGED <<x_step, cfg, seed, current_true_state, last_x, true_x,
                   true_y, measured_y, kf_x, kf_y, log, out>>

H == <<One, Zero>>

R_matrix == FMul(measurement_error, measurement_error)

Q == << <<Zero, Zero>>, <<Zero, process_noise_q>> >>

\* A fitted point that records the previous layer's x.
FittedX_stale(k) == last_kf_x

\* The x recorded for the fitted point of layer k (line 150).
FittedX(k) == layer_x_positions[k]

\* A loop that never advances last_kf_x.
AdvancedX_stuck(k) == last_kf_x

\* The x the next prediction starts from, after layer k (line 152).
AdvancedX(k) == layer_x_positions[k]

\* H * v for a 2-vector v, and the products H * P and P * H^T.
HTimesVector(v) == FAdd(FMul(H[1], v[1]), FMul(H[2], v[2]))

HTimesMatrix(P) ==
    << FAdd(FMul(H[1], P[1][1]), FMul(H[2], P[2][1])),
       FAdd(FMul(H[1], P[1][2]), FMul(H[2], P[2][2])) >>

MatrixTimesHt(P) ==
    << FAdd(FMul(P[1][1], H[1]), FMul(P[1][2], H[2])),
       FAdd(FMul(P[2][1], H[1]), FMul(P[2][2], H[2])) >>

KTimesH(K) ==
    << <<FMul(K[1], H[1]), FMul(K[1], H[2])>>,
       <<FMul(K[2], H[1]), FMul(K[2], H[2])>> >>

\* Line 136.
PredictedCovariance(F, P_in) ==
    MatAdd(MatMul(MatMul(F, P_in), Transpose(F)), Q)

\* Line 139.
Residual(measured, x_pred) == FSub(measured, HTimesVector(x_pred))

\* Line 141.
InnovationCovariance(P_pred) ==
    FAdd(HTimesVector(HTimesMatrix(P_pred)), R_matrix)

\* A gain that leaves out the factor S_inv.
KalmanGain_unscaled(P_pred, S_inv) == MatrixTimesHt(P_pred)

\* Line 145.
KalmanGain(P_pred, S_inv) ==
    << FMul(MatrixTimesHt(P_pred)[1], S_inv),
       FMul(MatrixTimesHt(P_pred)[2], S_inv) >>

\* Line 147.
UpdatedState(x_pred, K, y_residual) ==
    << FAdd(x_pred[1], FMul(K[1], y_residual)),
       FAdd(x_pred[2], FMul(K[2], y_residual)) >>

\* An update that leaves the predicted covariance as it is.
UpdatedCovariance_skipped(K, P_pred) == P_pred

\* Line 148.
UpdatedCovariance(K, P_pred) ==
    MatMul(MatSub(SMatrixIdentity, KTimesH(K)), P_pred)

\* Lines 145-148, given the locals of lines 134-143.
Updated(it, K) ==
    [layer |-> it.layer, x_prev |-> it.x_prev, x_in |-> it.x_in,
     P_in |-> it.P_in, F |-> it.F, x_pred |-> it.x_pred,
     P_pred |-> it.P_pred, measured |-> it.measured,
     y_residual |-> it.y_residual, S |-> it.S,
     invert_ok |-> it.invert_ok, S_inv |-> it.S_inv,
     K |-> K,
     x_est |-> UpdatedState(it.x_pred, K, it.y_residual),
     P_est |-> UpdatedCovariance(K, it.P_pred)]

\* Lines 142-143, given the locals of lines 134-141.
Inverted(it, inverted) ==
    Updated([layer |-> it.layer, x_prev |-> it.x_prev, x_in |-> it.x_in,
             P_in |-> it.P_in, F |-> it.F, x_pred |-> it.x_pred,
             P_pred |-> it.P_pred, measured |-> it.measured,
             y_residual |-> it.y_residual, S |-> it.S,
             invert_ok |-> inverted.ok, S_inv |-> inverted.inv],
            KalmanGain(it.P_pred, inverted.inv))

\* Lines 139-141, given the locals of lines 134-136.
Innovated(it, P_pred) ==
    Inverted([layer |-> it.layer, x_prev |-> it.x_prev, x_in |-> it.x_in,
              P_in |-> it.P_in, F |-> it.F, x_pred |-> it.x_pred,
              P_pred |-> P_pred, measured |-> it.measured,
              y_residual |-> Residual(it.measured, it.x_pred),
              S |-> InnovationCovariance(P_pred)],
             Invert(InnovationCovariance(P_pred)))

\* Line 136, given the locals of lines 134-135.
Predicted(it) == Innovated(it, PredictedCovariance(it.F, it.P_in))

\* Lines 134-148 for layer k (1-based): every local of the iteration.
KalmanIteration(k, x_in, P_in, x_prev) ==
    Predicted([layer |-> k, x_prev |-> x_prev, x_in |-> x_in, P_in |-> P_in,
               F |-> jacobian_F(x_in, x_prev, layer_x_positions[k]),
               x_pred |-> propagate(x_in, x_prev, layer_x_positions[k]),
               measured |-> measured_y[k]])

\* One iteration of the loop of lines 132-153.
KalmanLayer ==
    /\ pc = "kalman"
    /\ i < n_layers
    /\ \E it \in {KalmanIteration(i + 1, x_est, P_est, last_kf_x)} :
           /\ x_est' = it.x_est
           /\ P_est' = it.P_est
           /\ kf_x' = Append(kf_x, FittedX(i + 1))
           /\ kf_y' = Append(kf_y, it.x_est[1])
           /\ log' = Append(log, it)
    /\ last_kf_x' = AdvancedX(i + 1)
    /\ i' = i + 1
    /\ UNCHANGED <<x_step, cfg, seed, rng_calls, draws, pc,
                   current_true_state, last_x, true_x, true_y, measured_y,
                   out>>

\* std::cout << double at the default precision: the stream keeps 6 of the
\* 17 significant digits of a double. Here: PrintBits of the MantBits bits.
PrintBits == MantBits - 4

Shown(a) == RoundTo(PrintBits, a[1], a[2])

Point(x, y) == [x |-> Shown(x), y |-> Shown(y)]

\* Lines 156-187, once the loop of lines 132-153 has ended.
Output ==
    /\ pc = "kalman"
    /\ i >= n_layers
    /\ out' = [detector_layers |-> [k \in 1 .. n_layers |->
                                        Shown(layer_x_positions[k])],
               true_track |-> [k \in 1 .. Len(true_x) |->
                                   Point(true_x[k], true_y[k])],
               hits |-> [k \in 1 .. n_layers |->
                             Point(layer_x_positions[k], measured_y[k])],
               kf_track |-> [k \in 1 .. Len(kf_x) |->
                                 Point(kf_x[k], kf_y[k])],
               exit_code |-> 0]
    /\ pc' = "done"
    /\ UNCHANGED <<x_step, cfg, seed, rng_calls, draws, i,
                   current_true_state, last_x, true_x, true_y, measured_y,
                   x_est, P_est, last_kf_x, kf_x, kf_y, log>>

Next ==
    \/ TruthStep
    \/ TruthLayer
    \/ StartMeasurements
    \/ Measure
    \/ InitFilter
    \/ KalmanLayer
    \/ Output

Spec == Init /\ [][Next]_vars

-----------------------------------------------------------------------------
(* Properties *)

\* pi/2, and the angles at which the motion model is undefined.
HalfPi == Norm(PiFix, -FracBits - 1)

DomainError(phi) == ~FLt(FAbs(phi), HalfPi)

Positive(a) == a[1] > 0

NonNegative(a) == a[1] >= 0

StrictlyIncreasingPositive(xs) ==
    /\ \A k \in 1 .. Len(xs) : Positive(xs[k])
    /\ \A k \in 1 .. Len(xs) - 1 : FLt(xs[k], xs[k + 1])

ValidConfiguration ==
    /\ n_layers > 0
    /\ StrictlyIncreasingPositive(layer_x_positions)
    /\ Positive(measurement_error)
    /\ Positive(process_noise_q)

Trace(P) == FAdd(P[1][1], P[2][2])

Determinant(P) == FSub(FMul(P[1][1], P[2][2]), FMul(P[1][2], P[2][1]))

FMin(a, b) == IF FLt(a, b) THEN a ELSE b

FMax(a, b) == IF FLt(a, b) THEN b ELSE a

\* u units in the last place of a: a * u * 2^-MantBits, u a power of two.
Ulps(log2u, a) == FMul(Norm(1, log2u - MantBits), FAbs(a))

\* C1: in a valid configuration, a predict step that meets an angle outside
\* (-pi/2, pi/2) appends no fitted point, and a run that met one does not
\* end with exit code 0.
C1_DomainErrorAborts ==
    ValidConfiguration =>
        /\ \A k \in 1 .. Len(kf_y) : ~DomainError(log[k].x_in[2])
        /\ (pc = "done"
               /\ \E k \in 1 .. Len(log) : DomainError(log[k].x_in[2]))
               => out.exit_code # 0

\* C2: no update computes K, x_est and P_est when the innovation covariance
\* S of its layer is zero (the inversion reported failure).
C2_SingularIsFailure ==
    \A k \in 1 .. Len(log) : log[k].invert_ok /\ log[k].S # Zero

\* C3: in a valid configuration, P_est is symmetric and positive
\* semi-definite after every update.
C3_CovarianceSymmetricPSD ==
    ValidConfiguration =>
        \A k \in 1 .. Len(log) :
            /\ log[k].P_est[1][2] = log[k].P_est[2][1]
            /\ NonNegative(log[k].P_est[1][1])
            /\ NonNegative(log[k].P_est[2][2])
            /\ NonNegative(Determinant(log[k].P_est))

\* C4: a complete run writes one hit and one fitted point per layer, in
\* layer order, each with the x of its layer: detector_layers, hits and
\* kf_track have the same length and the same x in every place.
C4_OnePointPerLayer ==
    pc = "done" =>
        /\ Len(out.detector_layers) = n_layers
        /\ Len(out.hits) = n_layers
        /\ Len(out.kf_track) = n_layers
        /\ Len(kf_x) = n_layers
        /\ \A k \in 1 .. n_layers :
               /\ kf_x[k] = layer_x_positions[k]
               /\ out.detector_layers[k] = Shown(layer_x_positions[k])
               /\ out.hits[k].x = out.detector_layers[k]
               /\ out.kf_track[k].x = out.detector_layers[k]
               /\ out.hits[k].y = Shown(measured_y[k])
               /\ out.kf_track[k].y = Shown(log[k].x_est[1])

C4_Witness ==
    /\ pc = "done"
    /\ cfg = Scenario
    /\ Len(out.hits) = 10
    /\ Len(out.kf_track) = 10

\* C5: an invalid configuration produces no ground truth, no hit and no
\* fitted point, and its run does not end with exit code 0.
C5_InvalidConfigurationRejected ==
    ~ValidConfiguration =>
        /\ true_x = <<>>
        /\ measured_y = <<>>
        /\ kf_y = <<>>
        /\ pc = "done" => out.exit_code # 0

\* C6: for strictly increasing positive layer positions the x of the
\* dense ground truth strictly increase, and once the stepping has ended
\* they start at or before the first layer and end at or after the last.
C6_TrueTrackSpansLayers ==
    (n_layers > 0 /\ StrictlyIncreasingPositive(layer_x_positions)) =>
        /\ \A k \in 1 .. Len(true_x) - 1 : FLt(true_x[k], true_x[k + 1])
        /\ pc # "truth" =>
               /\ Len(true_x) > 0
               /\ FLe(true_x[1], layer_x_positions[1])
               /\ FLe(layer_x_positions[n_layers], true_x[Len(true_x)])

\* A finished run with measurement error 0 whose updates were all regular.
NoiselessRun ==
    /\ pc = "done"
    /\ R_matrix = Zero
    /\ \A k \in 1 .. Len(log) : log[k].invert_ok

PredictedVariances(k) ==
    FAdd(FAbs(log[k].P_pred[1][1]), FAbs(log[k].P_pred[2][2]))

\* The largest predicted variances the amended C7 speaks of.
VarianceCap == FromInt(10^6)

\* A noiseless run that stays well conditioned: its layers are at least 1
\* apart, the first at least 1 from the origin, and its predicted
\* variances stay below the cap.
WellConditionedRun ==
    /\ NoiselessRun
    /\ \A k \in 1 .. n_layers :
           FLe(One, FSub(layer_x_positions[k],
                         IF k = 1 THEN Zero ELSE layer_x_positions[k - 1]))
    /\ \A k \in 1 .. Len(log) : FLe(PredictedVariances(k), VarianceCap)

\* The rounding allowance between the traces of layers k and k + 1: four
\* units in the last place of the predicted variances of the two layers.
TraceAllowance(k) ==
    Ulps(2, FAdd(PredictedVariances(k), PredictedVariances(k + 1)))

Sample(k) == FromInt(Stream(seed, k - 1))

SequentialEstimator ==
    /\ Len(kf_x) = Len(log)
    /\ Len(kf_y) = Len(log)
    /\ pc = "kalman" =>
           /\ Len(log) = i
           /\ last_kf_x = (IF i = 0 THEN Zero ELSE layer_x_positions[i])
    /\ \A k \in 1 .. Len(log) :
           /\ log[k].layer = k
           /\ kf_x[k] = layer_x_positions[k]
           /\ kf_y[k] = log[k].x_est[1]
           /\ log[k].x_prev =
                  (IF k = 1 THEN Zero ELSE layer_x_positions[k - 1])
           /\ log[k].x_in =
                  (IF k = 1 THEN InitialGuess(n_layers)
                   ELSE log[k - 1].x_est)
           /\ log[k].P_in =
                  (IF k = 1 THEN InitialCovariance ELSE log[k - 1].P_est)
           /\ log[k].x_pred = propagate(log[k].x_in, log[k].x_prev,
                                        layer_x_positions[k])
    /\ pc = "done" => Len(kf_y) = n_layers
    /\ (pc = "done" /\ n_layers > 0) => x_est = log[n_layers].x_est

\* What C9 says of a step: fitted points are only appended, one layer at a
\* time, and after the last layer nothing changes any more.
AppendOnly ==
    /\ Len(kf_y') \in {Len(kf_y), Len(kf_y) + 1}
    /\ \A k \in 1 .. Len(kf_y) : kf_x'[k] = kf_x[k] /\ kf_y'[k] = kf_y[k]
    /\ Len(kf_y') = Len(kf_y) + 1 => (pc = "kalman" /\ i' = i + 1)
    /\ pc = "done" => UNCHANGED vars

\* C9: the estimator goes through the layers 0, 1, ..., n_layers - 1 once
\* each, every prediction starting from the previous layer's position and
\* posterior; a fitted point once appended is never changed, and the run
\* is final after the last layer.
C9_StrictlyForward == []SequentialEstimator /\ [][AppendOnly]_vars

C9_Witness ==
    /\ pc = "done"
    /\ cfg = Scenario
    /\ Len(kf_y) = 10
    /\ log[10].x_prev = FromInt(90)
    /\ log[10].x_in = log[9].x_est

\* The layers C10 speaks of.
GainCase(k) ==
    /\ NonNegative(log[k].P_pred[1][1])
    /\ Positive(R_matrix)

\* a lies between b and c, ends included.
Between(a, b, c) == FLe(FMin(b, c), a) /\ FLe(a, FMax(b, c))

FitAllowance(k) ==
    Ulps(3, FAdd(FAbs(log[k].x_pred[1]), FAbs(log[k].measured)))

=============================================================================
